---- MODULE Spec2Model ----
(***************************************************************************)
(* Model of agent_executor/upload.py: the ingestion entrypoint             *)
(* IngestRunnable.invoke, the synchronous batching ingester ingest_blob    *)
(* and its asynchronous sibling aingest_blob, against a vector store that  *)
(* appends every batch it is given and may fail.                           *)
(*                                                                         *)
(* A blob is represented by what the parser and the splitter make of it:   *)
(* the sequence of chunk counts of its parsed documents, and the value the *)
(* chunks' metadata holds under "namespace" before they are tagged.        *)
(***************************************************************************)
EXTENDS Integers, Sequences, FiniteSets, TLC

\* ---------------------------------------------------------------- bounds
MaxDocs == 2        \* parsed documents per blob
MaxChunks == 2      \* chunks a small parsed document splits into
MaxBatch == 2       \* largest batch_size passed explicitly

\* ------------------------------------------------------ program constants
DefaultBatchSize == 100      \* batch_size: int = 100
DefaultNamespace == ""       \* namespace: str = ""

\* ---------------------------------------------------------------- inputs
NoNamespace == "<absent>"    \* metadata has no "namespace" key
PreMeta == {NoNamespace, "intrinsic"}
Namespaces == {DefaultNamespace, "test1"}
BatchSizes == 0..MaxBatch
\* a parsed document either splits into a few chunks or into a full default batch
ChunkCounts == (0..MaxChunks) \cup {DefaultBatchSize}
Blobs == UNION {[1..n -> ChunkCounts] : n \in 0..MaxDocs}

\* the mime types _get_default_parser has a handler for
HandledMimeTypes ==
    {"application/pdf", "text/plain", "text/html", "application/msword",
     "application/vnd.openxmlformats-officedocument.wordprocessingml.document"}
\* what python-magic reports for the decoded bytes
MimeTypes == {"text/plain", "application/epub+zip"}
\* invoke's input. base64_file: the input is no mapping; the key is missing;
\* the value is no str; it is a str utf-8 cannot encode; it is not valid base64;
\* it decodes. filename: missing, a str, or a value Blob.from_data rejects.
\* magic, bs4: whether the packages can be imported. mimetype: what magic reports.
Inputs ==
    [base64_file : {"not_mapping", "absent", "not_str", "unencodable",
                    "malformed", "valid"},
     filename : {"absent", "str", "invalid"},
     magic : BOOLEAN,
     bs4 : BOOLEAN,
     mimetype : MimeTypes]
\* ingest_blob and aingest_blob take a blob and a parser, no ingestion input
NoInput == [base64_file |-> "none", filename |-> "none", magic |-> TRUE,
            bs4 |-> TRUE, mimetype |-> "none"]
\* the parser yields the blob's documents and then stops, or raises
ParseErrors == {"none", "ParserError"}

NoResult == [kind |-> "none"]
NoError == "none"

VARIABLES
    pc,            \* position in the running call
    run,           \* "none", or which of the two calls of the caller is running
    entry,         \* the function the caller called
    namespace,     \* namespace of the call
    batch_size,    \* batch_size of the call
    blob,          \* chunk counts of the blob's parsed documents
    premeta,       \* "namespace" metadata of the chunks before tagging
    input,         \* invoke's input, its environment, and the detected mime type
    parse_error,   \* the exception the parser ends the blob's documents with, if any
    consumed,      \* parsed documents taken from parser.lazy_parse so far
    docs_to_index, \* the pending buffer
    ids,           \* identifiers collected so far
    store,         \* the vector store: every batch persisted, in order
    nextId,        \* the vector store's next fresh identifier
    calls,         \* history: add_documents calls made by the running call
    produced,      \* history: chunks produced (split and tagged) by the running call
    steps,         \* history: decode / mime steps run by the running call
    result,        \* what the caller received
    error,         \* the exception the caller received
    first          \* history: summary of the first call once the second starts

vars == <<pc, run, entry, namespace, batch_size, blob, premeta, input, parse_error, consumed,
          docs_to_index, ids, store, nextId, calls, produced, steps, result,
          error, first>>

\* ------------------------------------------------------------ pure helpers
RECURSIVE Flatten(_)
Flatten(ss) == IF ss = <<>> THEN <<>> ELSE Head(ss) \o Flatten(Tail(ss))

RECURSIVE Sum(_)
Sum(s) == IF s = <<>> THEN 0 ELSE Head(s) + Sum(Tail(s))

\* text_splitter.split_documents([document]): the i-th parsed document splits
\* into blob[i] chunks, each carrying a copy of the parsed document's metadata
split_documents(i) ==
    [j \in 1..blob[i] |-> [doc |-> i, idx |-> j, namespace |-> premeta]]

\* faulty variant: keeps a namespace the chunk already carries (setdefault)
_update_document_metadata_setdefault(document, ns) ==
    IF document.namespace = NoNamespace
    THEN [document EXCEPT !.namespace = ns]
    ELSE document

\* document.metadata["namespace"] = namespace
_update_document_metadata(document, ns) ==
    [document EXCEPT !.namespace = ns]

Tagged(docs) == [j \in 1..Len(docs) |-> _update_document_metadata(docs[j], namespace)]

\* vectorstore.add_documents(batch): one fresh identifier per document
add_documents(batch) == [j \in 1..Len(batch) |-> nextId + j - 1]

\* the vector store after a successful add: append-only, no deduplication
persist(st, batch) == Append(st, batch)

Sync == entry \in {"invoke", "ingest_blob"}
Async == entry = "aingest_blob"

\* the for loop's next position: another document, or the code after the loop
\* (asking the parser for a document past the last one makes it stop or raise)
AfterCheck ==
    IF consumed < Len(blob) THEN "loop"
    ELSE IF parse_error # "none" THEN "parser_raises"
    ELSE "final"
AfterInit(b) ==
    IF Len(b) > 0 THEN "loop"
    ELSE IF parse_error # "none" THEN "parser_raises"
    ELSE "final"

\* ------------------------------------------------------------------- Init
Init ==
    /\ pc = "idle"
    /\ run = "none"
    /\ entry = "none"
    /\ namespace = DefaultNamespace
    /\ batch_size = DefaultBatchSize
    /\ blob = <<>>
    /\ premeta = NoNamespace
    /\ input = NoInput
    /\ parse_error = "none"
    /\ consumed = 0
    /\ docs_to_index = <<>>
    /\ ids = <<>>
    /\ store = <<>>
    /\ nextId = 1
    /\ calls = <<>>
    /\ produced = <<>>
    /\ steps = {}
    /\ result = NoResult
    /\ error = NoError
    /\ first = [ok |-> FALSE, stored |-> 0, ids |-> 0, calls |-> <<>>]

Stored == Len(Flatten(store))
Returned(cs) == Flatten([k \in 1..Len(cs) |-> IF cs[k].ok THEN cs[k].ids ELSE <<>>])
Sent(cs) == Flatten([k \in 1..Len(cs) |-> IF cs[k].ok THEN cs[k].docs ELSE <<>>])

\* The caller calls once, and may repeat a call that has returned.
CallerMay ==
    \/ /\ run = "none"
       /\ pc = "idle"
       /\ run' = "first"
       /\ first' = first
    \/ /\ run = "first"
       /\ pc = "done"
       /\ run' = "second"
       /\ first' = [ok |-> pc = "done", stored |-> Stored,
                    ids |-> Len(Returned(calls)), calls |-> calls]

Begin(e, ns, bs, b, pm, inp, pe) ==
    /\ CallerMay
    /\ entry' = e
    /\ namespace' = ns
    /\ batch_size' = bs
    /\ blob' = b
    /\ premeta' = pm
    /\ input' = inp
    /\ parse_error' = pe
    /\ consumed' = 0
    /\ calls' = <<>>
    /\ produced' = <<>>
    /\ steps' = {}
    /\ result' = NoResult
    /\ error' = NoError
    /\ UNCHANGED <<store, nextId, docs_to_index, ids>>

\* ------------------------------------------------------------ entrypoints
\* runnable.invoke(input): ingest_blob is called with the default batch_size.
\* What the parser and the splitter make of the payload is set once the
\* default parser is made; a repeated call finds it as the first call left it.
Invoke(ns, b, pm, inp, pe) ==
    /\ Begin("invoke", ns, DefaultBatchSize, b, pm, inp, pe)
    /\ pc' = "check"

\* ingest_blob(blob, parser, text_splitter, vectorstore, namespace, batch_size=bs)
CallIngestBlob(ns, bs, b, pm, pe) ==
    /\ Begin("ingest_blob", ns, bs, b, pm, NoInput, pe)
    /\ pc' = "init"

\* aingest_blob(blob, parser, text_splitter, vectorstore, namespace, batch_size=bs)
CallAingestBlob(ns, bs, b, pm, pe) ==
    /\ Begin("aingest_blob", ns, bs, b, pm, NoInput, pe)
    /\ pc' = "init"

Raise(exc) ==
    /\ pc' = "failed"
    /\ error' = exc
    /\ result' = NoResult

\* if not self.namespace: raise ValueError("namespace must be provided")
NamespaceMissing ==
    /\ pc = "check"
    /\ namespace = ""
    /\ Raise("ValueError")
    /\ UNCHANGED <<run, entry, namespace, batch_size, blob, premeta, input, parse_error, consumed,
                   docs_to_index, ids, store, nextId, calls, produced, steps, first>>

\* _convert_ingestion_input_to_blob(input): what the conversion comes to.
\* ingestion_input["base64_file"] raises TypeError when the input is no mapping
\* and KeyError when the key is missing; base64_file.encode("utf-8") raises
\* AttributeError when the value is no str and UnicodeEncodeError when the str
\* cannot be encoded; base64.decodebytes raises binascii.Error on malformed
\* base64; _guess_mimetype raises ImportError when magic cannot be imported;
\* Blob.from_data raises ValidationError on a filename that is no path.
ConvertOutcome ==
    IF input.base64_file = "not_mapping" THEN "TypeError"
    ELSE IF input.base64_file = "absent" THEN "KeyError"
    ELSE IF input.base64_file = "not_str" THEN "AttributeError"
    ELSE IF input.base64_file = "unencodable" THEN "UnicodeEncodeError"
    ELSE IF input.base64_file = "malformed" THEN "binascii.Error"
    ELSE IF ~input.magic THEN "ImportError"
    ELSE IF input.filename = "invalid" THEN "ValidationError"
    ELSE "ok"

\* the steps of the conversion that were entered: base64.decodebytes,
\* _guess_mimetype
ConvertSteps(outcome) ==
    IF outcome \in {"TypeError", "KeyError", "AttributeError", "UnicodeEncodeError"}
    THEN {}
    ELSE IF outcome = "binascii.Error" THEN {"decode"}
    ELSE {"decode", "mime"}

\* faulty variant: the conversion does not wait for the namespace check
ConvertUnchecked(outcome) ==
    /\ pc = "check"
    /\ outcome = ConvertOutcome
    /\ steps' = ConvertSteps(outcome)
    /\ IF outcome = "ok"
       THEN pc' = "parser" /\ UNCHANGED <<result, error>>
       ELSE Raise(outcome)
    /\ UNCHANGED <<run, entry, namespace, batch_size, blob, premeta, input, parse_error,
                   consumed, docs_to_index, ids, store, nextId, calls, produced, first>>

\* blob = _convert_ingestion_input_to_blob(input), reached only past the
\* namespace check
Convert(outcome) ==
    /\ pc = "check"
    /\ namespace # ""
    /\ outcome = ConvertOutcome
    /\ steps' = ConvertSteps(outcome)
    /\ IF outcome = "ok"
       THEN pc' = "parser" /\ UNCHANGED <<result, error>>
       ELSE Raise(outcome)
    /\ UNCHANGED <<run, entry, namespace, batch_size, blob, premeta, input, parse_error,
                   consumed, docs_to_index, ids, store, nextId, calls, produced, first>>

ConvertOk == Convert("ok")
ConvertNotMapping == Convert("TypeError")
ConvertKeyMissing == Convert("KeyError")
ConvertNotStr == Convert("AttributeError")
ConvertUnencodable == Convert("UnicodeEncodeError")
ConvertDecodeError == Convert("binascii.Error")
ConvertMagicMissing == Convert("ImportError")
ConvertBadFilename == Convert("ValidationError")

\* _get_default_parser(), evaluated as an argument of the call of ingest_blob:
\* BS4HTMLParser() raises ImportError when bs4 cannot be imported
default_parser_fails ==
    /\ pc = "parser"
    /\ ~input.bs4
    /\ Raise("ImportError")
    /\ UNCHANGED <<run, entry, namespace, batch_size, blob, premeta, input, parse_error,
                   consumed, docs_to_index, ids, store, nextId, calls, produced,
                   steps, first>>

\* _get_default_parser() made, ingest_blob is called. A mime type with a
\* handler: the parser yields some documents and stops or raises. A mime type
\* without one (there is no fallback parser): it raises ValueError at once.
default_parser_made ==
    /\ pc = "parser"
    /\ input.bs4
    /\ IF run = "second"
       THEN UNCHANGED <<blob, premeta, parse_error>>
       ELSE IF input.mimetype \in HandledMimeTypes
       THEN \E b \in Blobs, pm \in PreMeta, pe \in ParseErrors :
               /\ blob' = b
               /\ premeta' = pm
               /\ parse_error' = pe
       ELSE /\ blob' = <<>>
            /\ parse_error' = "ValueError"
            /\ UNCHANGED premeta
    /\ pc' = "init"
    /\ UNCHANGED <<run, entry, namespace, batch_size, input, consumed, docs_to_index,
                   ids, store, nextId, calls, produced, steps, result, error, first>>

\* for document in parser.lazy_parse(blob): the parser raises
parser_raises ==
    /\ pc = "parser_raises"
    /\ Raise(parse_error)
    /\ UNCHANGED <<run, entry, namespace, batch_size, blob, premeta, input, parse_error,
                   consumed, docs_to_index, ids, store, nextId, calls, produced,
                   steps, first>>

\* ------------------------------------------------------------- ingest_blob
\* faulty variant: strict comparison
LoopThresholdStrict == Len(docs_to_index) > batch_size

\* inside the loop: len(docs_to_index) >= batch_size
LoopThreshold == Len(docs_to_index) >= batch_size

\* variant: the final flush fires on any non-empty buffer
FinalThresholdNonEmpty == Len(docs_to_index) > 0

\* after the loop: len(docs_to_index) >= batch_size
FinalThreshold == Len(docs_to_index) >= batch_size

\* faulty variant: the buffer is not re-created for the call
ingest_blob_init_stale ==
    /\ pc = "init"
    /\ Sync
    /\ ids' = <<>>
    /\ pc' = AfterInit(blob)
    /\ UNCHANGED <<run, entry, namespace, batch_size, blob, premeta, input, parse_error, consumed,
                   docs_to_index, store, nextId, calls, produced, steps, result,
                   error, first>>

\* docs_to_index = []; ids = []; then the for loop asks the parser for a document
ingest_blob_init ==
    /\ pc = "init"
    /\ Sync
    /\ docs_to_index' = <<>>
    /\ ids' = <<>>
    /\ pc' = AfterInit(blob)
    /\ UNCHANGED <<run, entry, namespace, batch_size, blob, premeta, input, parse_error, consumed,
                   store, nextId, calls, produced, steps, result, error, first>>

\* one parsed document: split, tag every chunk, extend the buffer
ingest_blob_document ==
    /\ pc = "loop"
    /\ Sync
    /\ consumed < Len(blob)
    /\ LET docs == Tagged(split_documents(consumed + 1)) IN
         /\ docs_to_index' = docs_to_index \o docs
         /\ produced' = produced \o docs
    /\ consumed' = consumed + 1
    /\ pc' = "threshold"
    /\ UNCHANGED <<run, entry, namespace, batch_size, blob, premeta, input, parse_error, ids, store,
                   nextId, calls, steps, result, error, first>>

\* faulty variant: ids is assigned, not extended
AddSucceedsAssign ==
    /\ store' = persist(store, docs_to_index)
    /\ nextId' = nextId + Len(docs_to_index)
    /\ ids' = add_documents(docs_to_index)
    /\ calls' = Append(calls, [docs |-> docs_to_index, ok |-> TRUE,
                               ids |-> add_documents(docs_to_index)])

\* ids.extend(vectorstore.add_documents(docs_to_index)), the add succeeding
AddSucceeds ==
    /\ store' = persist(store, docs_to_index)
    /\ nextId' = nextId + Len(docs_to_index)
    /\ ids' = ids \o add_documents(docs_to_index)
    /\ calls' = Append(calls, [docs |-> docs_to_index, ok |-> TRUE,
                               ids |-> add_documents(docs_to_index)])

\* vectorstore.add_documents(docs_to_index) raising: nothing of the batch is
\* stored and the exception leaves the function
AddFails ==
    /\ calls' = Append(calls, [docs |-> docs_to_index, ok |-> FALSE, ids |-> <<>>])
    /\ Raise("StoreError")
    /\ UNCHANGED <<store, nextId, ids, docs_to_index>>

Rest == <<run, entry, namespace, batch_size, blob, premeta, input, parse_error, consumed, produced,
          steps, first>>

\* faulty variant: the buffer is not reset after the flush
ingest_blob_flush_keep ==
    /\ pc = "threshold"
    /\ Sync
    /\ LoopThreshold
    /\ AddSucceeds
    /\ pc' = AfterCheck
    /\ UNCHANGED <<docs_to_index, result, error>>
    /\ UNCHANGED Rest

\* if len(docs_to_index) >= batch_size: flush and docs_to_index = []
ingest_blob_flush ==
    /\ pc = "threshold"
    /\ Sync
    /\ LoopThreshold
    /\ AddSucceeds
    /\ docs_to_index' = <<>>
    /\ pc' = AfterCheck
    /\ UNCHANGED <<result, error>>
    /\ UNCHANGED Rest

\* faulty variant: the exception is swallowed and the loop goes on
ingest_blob_flush_fails_swallowed ==
    /\ pc = "threshold"
    /\ Sync
    /\ LoopThreshold
    /\ calls' = Append(calls, [docs |-> docs_to_index, ok |-> FALSE, ids |-> <<>>])
    /\ pc' = AfterCheck
    /\ UNCHANGED <<store, nextId, ids, docs_to_index, result, error>>
    /\ UNCHANGED Rest

\* the add inside the loop raising
ingest_blob_flush_fails ==
    /\ pc = "threshold"
    /\ Sync
    /\ LoopThreshold
    /\ AddFails
    /\ UNCHANGED Rest

\* the threshold is not reached: next document
ingest_blob_no_flush ==
    /\ pc = "threshold"
    /\ Sync
    /\ ~LoopThreshold
    /\ pc' = AfterCheck
    /\ UNCHANGED <<docs_to_index, ids, store, nextId, calls, result, error>>
    /\ UNCHANGED Rest

\* after the loop: if len(docs_to_index) >= batch_size: flush (no reset)
ingest_blob_final_flush ==
    /\ pc = "final"
    /\ Sync
    /\ FinalThreshold
    /\ AddSucceeds
    /\ pc' = "return"
    /\ UNCHANGED <<docs_to_index, result, error>>
    /\ UNCHANGED Rest

ingest_blob_final_flush_fails ==
    /\ pc = "final"
    /\ Sync
    /\ FinalThreshold
    /\ AddFails
    /\ UNCHANGED Rest

\* after the loop, threshold not reached: the buffer is left as it is
ingest_blob_final_no_flush ==
    /\ pc = "final"
    /\ Sync
    /\ ~FinalThreshold
    /\ pc' = "return"
    /\ UNCHANGED <<docs_to_index, ids, store, nextId, calls, result, error>>
    /\ UNCHANGED Rest

\* return ids
ingest_blob_return ==
    /\ pc = "return"
    /\ entry = "ingest_blob"
    /\ result' = [kind |-> "ids", ids |-> ids]
    /\ pc' = "done"
    /\ UNCHANGED <<docs_to_index, ids, store, nextId, calls, error>>
    /\ UNCHANGED Rest

\* invoke drops the list ingest_blob returned: return {"success": True}
invoke_return ==
    /\ pc = "return"
    /\ entry = "invoke"
    /\ result' = [kind |-> "output", success |-> TRUE]
    /\ pc' = "done"
    /\ UNCHANGED <<docs_to_index, ids, store, nextId, calls, error>>
    /\ UNCHANGED Rest

\* ------------------------------------------------------------ aingest_blob
\* docs_to_index = []; ids = []
aingest_blob_init ==
    /\ pc = "init"
    /\ Async
    /\ docs_to_index' = <<>>
    /\ ids' = <<>>
    /\ pc' = AfterInit(blob)
    /\ UNCHANGED <<run, entry, namespace, batch_size, blob, premeta, input, parse_error, consumed,
                   store, nextId, calls, produced, steps, result, error, first>>

\* variant: the buffer is extended as in ingest_blob
aingest_blob_document_extend ==
    /\ pc = "loop"
    /\ Async
    /\ consumed < Len(blob)
    /\ LET docs == Tagged(split_documents(consumed + 1)) IN
         /\ docs_to_index' = docs_to_index \o docs
         /\ produced' = produced \o docs
    /\ consumed' = consumed + 1
    /\ pc' = "threshold"
    /\ UNCHANGED <<run, entry, namespace, batch_size, blob, premeta, input, parse_error, ids, store,
                   nextId, calls, steps, result, error, first>>

\* one parsed document: split, tag every chunk; the buffer is not extended
aingest_blob_document ==
    /\ pc = "loop"
    /\ Async
    /\ consumed < Len(blob)
    /\ LET docs == Tagged(split_documents(consumed + 1)) IN
         produced' = produced \o docs
    /\ consumed' = consumed + 1
    /\ pc' = "threshold"
    /\ UNCHANGED <<run, entry, namespace, batch_size, blob, premeta, input, parse_error, docs_to_index,
                   ids, store, nextId, calls, steps, result, error, first>>

\* if len(docs_to_index) >= batch_size: flush and docs_to_index = []
aingest_blob_flush ==
    /\ pc = "threshold"
    /\ Async
    /\ Len(docs_to_index) >= batch_size
    /\ AddSucceeds
    /\ docs_to_index' = <<>>
    /\ pc' = AfterCheck
    /\ UNCHANGED <<result, error>>
    /\ UNCHANGED Rest

aingest_blob_flush_fails ==
    /\ pc = "threshold"
    /\ Async
    /\ Len(docs_to_index) >= batch_size
    /\ AddFails
    /\ UNCHANGED Rest

aingest_blob_no_flush ==
    /\ pc = "threshold"
    /\ Async
    /\ Len(docs_to_index) < batch_size
    /\ pc' = AfterCheck
    /\ UNCHANGED <<docs_to_index, ids, store, nextId, calls, result, error>>
    /\ UNCHANGED Rest

\* after the loop: if len(docs_to_index) >= batch_size: flush
aingest_blob_final_flush ==
    /\ pc = "final"
    /\ Async
    /\ Len(docs_to_index) >= batch_size
    /\ AddSucceeds
    /\ pc' = "return"
    /\ UNCHANGED <<docs_to_index, result, error>>
    /\ UNCHANGED Rest

aingest_blob_final_flush_fails ==
    /\ pc = "final"
    /\ Async
    /\ Len(docs_to_index) >= batch_size
    /\ AddFails
    /\ UNCHANGED Rest

aingest_blob_final_no_flush ==
    /\ pc = "final"
    /\ Async
    /\ Len(docs_to_index) < batch_size
    /\ pc' = "return"
    /\ UNCHANGED <<docs_to_index, ids, store, nextId, calls, result, error>>
    /\ UNCHANGED Rest

\* return ids
aingest_blob_return ==
    /\ pc = "return"
    /\ Async
    /\ result' = [kind |-> "ids", ids |-> ids]
    /\ pc' = "done"
    /\ UNCHANGED <<docs_to_index, ids, store, nextId, calls, error>>
    /\ UNCHANGED Rest

\* ------------------------------------------------------------ specification
\* the first call takes any arguments; the second repeats the first call
CallInvoke ==
    /\ run = "none"
    /\ \E ns \in Namespaces, inp \in Inputs :
          Invoke(ns, <<>>, NoNamespace, inp, "none")
CallSync ==
    /\ run = "none"
    /\ \E ns \in Namespaces, bs \in BatchSizes, b \in Blobs, pm \in PreMeta,
          pe \in ParseErrors :
          CallIngestBlob(ns, bs, b, pm, pe)
CallAsync ==
    /\ run = "none"
    /\ \E ns \in Namespaces, bs \in BatchSizes, b \in Blobs, pm \in PreMeta,
          pe \in ParseErrors :
          CallAingestBlob(ns, bs, b, pm, pe)
RepeatInvoke ==
    /\ entry = "invoke"
    /\ Invoke(namespace, blob, premeta, input, parse_error)
RepeatSync ==
    /\ entry = "ingest_blob"
    /\ CallIngestBlob(namespace, batch_size, blob, premeta, parse_error)
RepeatAsync ==
    /\ entry = "aingest_blob"
    /\ CallAingestBlob(namespace, batch_size, blob, premeta, parse_error)

Next ==
    \/ CallInvoke
    \/ CallSync
    \/ CallAsync
    \/ RepeatInvoke
    \/ RepeatSync
    \/ RepeatAsync
    \/ NamespaceMissing
    \/ ConvertOk
    \/ ConvertNotMapping
    \/ ConvertKeyMissing
    \/ ConvertNotStr
    \/ ConvertUnencodable
    \/ ConvertBadFilename
    \/ default_parser_fails
    \/ default_parser_made
    \/ ConvertDecodeError
    \/ ConvertMagicMissing
    \/ ingest_blob_init
    \/ parser_raises
    \/ ingest_blob_document
    \/ ingest_blob_flush
    \/ ingest_blob_flush_fails
    \/ ingest_blob_no_flush
    \/ ingest_blob_final_flush
    \/ ingest_blob_final_flush_fails
    \/ ingest_blob_final_no_flush
    \/ ingest_blob_return
    \/ invoke_return
    \/ aingest_blob_init
    \/ aingest_blob_document
    \/ aingest_blob_flush
    \/ aingest_blob_flush_fails
    \/ aingest_blob_no_flush
    \/ aingest_blob_final_flush
    \/ aingest_blob_final_flush_fails
    \/ aingest_blob_final_no_flush
    \/ aingest_blob_return

Spec == Init /\ [][Next]_vars

\* ------------------------------------------------------ derived quantities
\* chunks the vector store held when the running call began
StoredBefore == IF run = "second" THEN first.stored ELSE 0
\* what the running call has added to the vector store
StoredByCall == SubSeq(Flatten(store), StoredBefore + 1, Stored)
Batches(cs) == [k \in 1..Len(cs) |-> cs[k].docs]
Elems(q) == {q[j] : j \in 1..Len(q)}
\* chunks handed to add_documents by the running call, stored or not
Passed == Elems(Flatten(Batches(calls)))
Total == Sum(blob)
\* cumulative chunk counts at the boundaries between parsed documents
Boundaries == {Sum(SubSeq(blob, 1, n)) : n \in 0..Len(blob)}
\* the running call is past the initialisation of ingest_blob / aingest_blob
Running ==
    \/ pc \in {"loop", "threshold", "final", "return", "done"}
    \/ pc = "parser_raises"
    \/ pc = "failed" /\ error \in {"StoreError", "ParserError"}

\* ----------------------------------------------------------------- claims
\* C1 (as stated): every chunk passed to the vector store's add operation
\* carries a namespace metadata field that is non-empty and equal to the
\* namespace supplied to the call, whatever the chunk's metadata held before.
C1_NamespaceNonEmptyAndEqual ==
    \A c \in Passed : c.namespace = namespace /\ c.namespace # ""

\* C1 (amended): every chunk passed to the vector store's add operation carries
\* a namespace metadata field equal to the namespace supplied to the call,
\* whatever its metadata held before; the field is non-empty for every
\* ingestion that goes through IngestRunnable.invoke.
C1_NamespaceEqual ==
    \A c \in Passed :
        /\ c.namespace = namespace
        /\ entry = "invoke" => c.namespace # ""

C1_Witness ==
    /\ entry = "invoke"
    /\ premeta = "intrinsic"
    /\ Len(calls) > 0
    /\ calls[1].ok
    /\ Len(calls[1].docs) > 0

\* C2: IngestRunnable.invoke with an empty namespace fails with the
\* configuration error before any decoding, mime detection or parsing step,
\* and makes no call to the vector store's add operation (nothing is written).
C2_EmptyNamespaceFailsFirst ==
    (entry = "invoke" /\ namespace = "") =>
        /\ pc \in {"check", "failed"}
        /\ steps = {}
        /\ consumed = 0
        /\ produced = <<>>
        /\ calls = <<>>
        /\ store = <<>>
        /\ pc = "failed" => (error = "ValueError" /\ result = NoResult)

C2_Witness ==
    /\ entry = "invoke"
    /\ namespace = ""
    /\ pc = "failed"
    /\ input.base64_file = "valid"
    /\ input.filename = "absent"
    /\ input.magic
    /\ input.bs4
    /\ input.mimetype = "text/plain"

\* C3: an ingestion with a valid namespace whose chunks number at least 1 and
\* fewer than batch_size ends with a trailing flush that persists all of them,
\* one identifier per chunk (a single chunk under the default batch size gives
\* one persisted chunk and one identifier).
C3_TrailingFlushPersistsAll ==
    (pc = "done" /\ Sync /\ namespace # "" /\ Total >= 1 /\ Total < batch_size) =>
        /\ Len(calls) >= 1
        /\ StoredByCall = produced
        /\ Len(Returned(calls)) = Total

\* C4 (as stated): when the chunks total k * batch_size, however they are
\* spread over the parsed documents, ingest_blob makes exactly k add calls of
\* exactly batch_size chunks each.
C4_ExactBatches ==
    (pc = "done" /\ Sync /\ batch_size >= 1 /\ Total % batch_size = 0) =>
        /\ Len(calls) = Total \div batch_size
        /\ \A k \in 1..Len(calls) : Len(calls[k].docs) = batch_size

\* C4 (amended): when the chunks total k * batch_size and every multiple of
\* batch_size up to the total falls on a boundary between parsed documents,
\* ingest_blob, on completing, has made exactly k add calls of exactly
\* batch_size chunks each.
C4_ExactBatchesOnBoundaries ==
    ( /\ pc = "done" /\ Sync /\ batch_size >= 1 /\ Total % batch_size = 0
      /\ \A m \in 1..(Total \div batch_size) : m * batch_size \in Boundaries ) =>
        /\ Len(calls) = Total \div batch_size
        /\ \A k \in 1..Len(calls) : Len(calls[k].docs) = batch_size

C4_Witness ==
    /\ pc = "done"
    /\ entry = "ingest_blob"
    /\ batch_size = 2
    /\ blob = <<2, 2>>
    /\ Len(calls) = 2

\* State part of C5: a failing add call propagates at once and is not retried:
\* the failed call is the last add call of the invocation, the caller gets an exception
\* and no identifier list, the batches flushed before it are still in the
\* store, and after the failure no document is consumed and no add is made.
C5_FailureState ==
    (\E k \in 1..Len(calls) : ~calls[k].ok) =>
        /\ pc = "failed"
        /\ error = "StoreError"
        /\ result = NoResult
        /\ \A k \in 1..Len(calls) : calls[k].ok <=> k < Len(calls)
        /\ StoredByCall = Sent(calls)

\* Step part of C5: after the failure the invocation does nothing more.
C5_FailureStep ==
    (pc = "failed" /\ run' = run) => UNCHANGED <<consumed, calls, store, result>>

\* C5: a failing add call propagates immediately with no retry (state part
\* and step part together).
C5_FailurePropagates == [](C5_FailureState) /\ [][C5_FailureStep]_vars

C5_Witness ==
    /\ pc = "failed"
    /\ Sync
    /\ Len(calls) = 2
    /\ calls[1].ok
    /\ Len(calls[1].docs) > 0
    /\ StoredByCall = calls[1].docs

\* C6: the list ingest_blob returns is the concatenation, in flush order, of
\* the identifier lists its add calls returned.
C6_IdsAreConcatenation ==
    /\ (Sync /\ pc = "return") => ids = Returned(calls)
    /\ (entry = "ingest_blob" /\ pc = "done") =>
           result = [kind |-> "ids", ids |-> Returned(calls)]

C6_Witness ==
    /\ entry = "ingest_blob"
    /\ pc = "done"
    /\ Len(calls) = 2
    /\ Len(calls[1].ids) > 0
    /\ Len(calls[2].ids) > 0

\* C7: once the input is exhausted, ingest_blob flushes only a buffer of at
\* least batch_size chunks: a trailing buffer of 1..batch_size-1 chunks is
\* never passed to the vector store, and ingest_blob still returns normally.
C7_TrailingBufferDropped ==
    (Sync /\ batch_size >= 1 /\ pc \in {"return", "done"}) =>
        /\ Len(docs_to_index) < batch_size
        /\ Elems(docs_to_index) \cap Passed = {}
        /\ Len(StoredByCall) = Len(produced) - Len(docs_to_index)
        /\ pc = "done" => (error = NoError /\ result # NoResult)

C7_Witness ==
    /\ Sync
    /\ pc = "done"
    /\ Len(docs_to_index) >= 1
    /\ Len(docs_to_index) < batch_size
    /\ Len(calls) >= 1

\* C8: repeating a completed ingestion with the same input, namespace and
\* batch size makes the same add calls again with no deduplication: the store
\* and the identifiers returned are then twice those of the first run.
C8_ReingestDoubles ==
    (run = "second" /\ pc = "done" /\ first.ok) =>
        /\ Batches(calls) = Batches(first.calls)
        /\ Stored = 2 * first.stored
        /\ first.ids + Len(Returned(calls)) = 2 * first.ids
        /\ Elems(Returned(calls)) \cap Elems(Returned(first.calls)) = {}

C8_Witness ==
    /\ run = "second"
    /\ pc = "done"
    /\ first.ok
    /\ first.stored > 0
    /\ Len(calls) >= 1

\* C9: aingest_blob never appends to its buffer, so the buffer is empty at
\* every threshold check and, for batch_size >= 1, the add operation is never
\* called, nothing is persisted and the returned list is empty.
C9_AsyncPersistsNothing ==
    /\ (Async /\ Running) => docs_to_index = <<>>
    /\ (Async /\ batch_size >= 1) =>
          /\ calls = <<>>
          /\ Stored = StoredBefore
          /\ error # "StoreError"
          /\ pc = "done" => result = [kind |-> "ids", ids |-> <<>>]

C9_Witness ==
    /\ Async
    /\ pc = "done"
    /\ batch_size >= 1
    /\ Len(produced) >= batch_size

\* C10: throughout an ingest_blob invocation, the batches already stored
\* followed by the pending buffer are exactly the chunks produced so far, in
\* order: nothing is sent twice, skipped, or reordered.
C10_StoredThenBufferIsProduced ==
    (Sync /\ Running) =>
        /\ Sent(calls) \o docs_to_index = produced
        /\ StoredByCall = Sent(calls)

C10_Witness ==
    /\ Sync
    /\ pc = "threshold"
    /\ Len(calls) >= 1
    /\ calls[1].ok
    /\ Len(calls[1].docs) > 0
    /\ docs_to_index # <<>>

====
